---- MODULE Spec2Model ----
(***************************************************************************)
(* A model of the two command-line tools of the repository:                *)
(*   - the Atuin history mover (src/atuin-history-mover/index.ts), and     *)
(*   - the tools indexer (src/unnamed/part_001).                           *)
(* Strings are sequences of one-character strings, so that prefix slicing, *)
(* SQL LIKE matching, path resolution and substring tests are computed     *)
(* character by character as the code computes them.                       *)
(***************************************************************************)
EXTENDS Integers, Sequences, FiniteSets, TLC

\* the history mover: the store, the store as the running invocation found it,
\* the invocation's arguments and environment, where main is, what it has done
VARIABLES history, prev, argv, env, pc, result

\* the tools indexer: the README.md files the glob yields, those it has yet to
\* yield, the tools collected so far, where the scan is
VARIABLES tree, pending, scannedTools, scanPc
VARIABLES rootDir, outputFile, generateJustfile, stdout, written

moverVars == <<history, prev, argv, env, pc, result>>
indexVars == <<rootDir, outputFile, generateJustfile, stdout, written>>
scanVars == <<tree, pending, scannedTools, scanPc, rootDir, outputFile, generateJustfile,
              stdout, written>>
vars == <<history, prev, argv, env, pc, result, tree, pending, scannedTools, scanPc,
          rootDir, outputFile, generateJustfile, stdout, written>>

-----------------------------------------------------------------------------
(* Bounds of the model *)

\* the store holds at most this many rows (a copy that would exceed it is not explored)
MaxRows == 3
\* no cwd longer than this many characters is written (a move or copy that would is not explored)
MaxPathLen == 4

-----------------------------------------------------------------------------
(* Strings *)

SLASH == "/"

\* s.startsWith(p)
StartsWith(s, p) == Len(s) >= Len(p) /\ SubSeq(s, 1, Len(p)) = p

\* s.slice(n)
Slice(s, n) == SubSeq(s, n + 1, Len(s))

\* args.includes(x)
Includes(args, x) == \E i \in 1..Len(args) : args[i] = x

\* args.indexOf(x), 0-based, -1 when absent
IndexOf(args, x) ==
  IF Includes(args, x)
    THEN (CHOOSE i \in 1..Len(args) : args[i] = x /\ \A j \in 1..(i - 1) : args[j] # x) - 1
    ELSE -1

UpperCase == <<"A","B","C","D","E","F","G","H","I","J","K","L","M",
               "N","O","P","Q","R","S","T","U","V","W","X","Y","Z">>
LowerCase == <<"a","b","c","d","e","f","g","h","i","j","k","l","m",
               "n","o","p","q","r","s","t","u","v","w","x","y","z">>

\* SQLite's LIKE folds the case of ASCII letters
Fold(c) ==
  IF \E i \in 1..Len(UpperCase) : UpperCase[i] = c
    THEN LowerCase[CHOOSE i \in 1..Len(UpperCase) : UpperCase[i] = c]
    ELSE c

\* SQLite's `s LIKE pat` with no ESCAPE: '%' matches any run of characters,
\* '_' matches any one character, every other character matches itself
\* ignoring ASCII case
RECURSIVE Like(_, _)
Like(pat, s) ==
  IF pat = <<>> THEN s = <<>>
  ELSE IF Head(pat) = "%" THEN Like(Tail(pat), s) \/ (s # <<>> /\ Like(pat, Tail(s)))
  ELSE IF s = <<>> THEN FALSE
  ELSE IF Head(pat) = "_" THEN Like(Tail(pat), Tail(s))
  ELSE Fold(Head(pat)) = Fold(Head(s)) /\ Like(Tail(pat), Tail(s))

-----------------------------------------------------------------------------
(* Paths: node's path.join and path.resolve (posix) *)

\* the segments of a path between its separators, empty ones included
RECURSIVE SplitPath(_)
SplitPath(s) ==
  IF \A i \in 1..Len(s) : s[i] # SLASH THEN <<s>>
  ELSE LET k == CHOOSE i \in 1..Len(s) : s[i] = SLASH /\ \A j \in 1..(i - 1) : s[j] # SLASH
       IN  <<SubSeq(s, 1, k - 1)>> \o SplitPath(Slice(s, k))

\* normalizeString: drop "" and ".", let ".." remove the segment before it
RECURSIVE NormalizeSegs(_, _)
NormalizeSegs(segs, acc) ==
  IF segs = <<>> THEN acc
  ELSE LET h == Head(segs) IN
       IF h = <<>> \/ h = <<".">> THEN NormalizeSegs(Tail(segs), acc)
       ELSE IF h = <<".", ".">>
         THEN NormalizeSegs(Tail(segs), IF acc = <<>> THEN acc ELSE SubSeq(acc, 1, Len(acc) - 1))
         ELSE NormalizeSegs(Tail(segs), Append(acc, h))

RECURSIVE JoinSegs(_)
JoinSegs(segs) ==
  IF segs = <<>> THEN <<>> ELSE <<SLASH>> \o Head(segs) \o JoinSegs(Tail(segs))

\* path.resolve(p) in a process whose working directory is cwd (absolute)
Resolve(p, cwd) ==
  LET abs  == IF p # <<>> /\ Head(p) = SLASH THEN p ELSE cwd \o <<SLASH>> \o p
      segs == NormalizeSegs(SplitPath(abs), <<>>)
  IN  IF segs = <<>> THEN <<SLASH>> ELSE JoinSegs(segs)

\* path.join(a, b) for a non-empty a; the result is only ever resolved, and
\* Resolve normalizes as join does
Join(a, b) == a \o <<SLASH>> \o b

\* process.env.HOME || process.env.USERPROFILE (unset and "" are both falsy)
Home(e) == IF e.HOME # <<>> THEN e.HOME ELSE e.USERPROFILE

\* what a throwing call yields: no path, a string of one character each, equals it
THROWN == <<"throw new Error">>

\* normalizePath: expand ~ and resolve; THROWN when the home directory cannot
\* be determined
normalizePath(path, e) ==
  IF StartsWith(path, <<"~", SLASH>>)
    THEN IF Home(e) = <<>> THEN THROWN
         ELSE Resolve(Join(Home(e), Slice(path, 2)), e.cwd)
    ELSE Resolve(path, e.cwd)

-----------------------------------------------------------------------------
(* The history table of the Atuin database *)

\* deleted_at IS NULL
NULL == <<>>

IsLive(entry) == entry.deleted_at = NULL

\* a faulty variant: the WHERE clause without its deleted_at IS NULL
MatchExactAny(entry, dirPath) == entry.cwd = dirPath

\* WHERE cwd = ? AND deleted_at IS NULL
MatchExact(entry, dirPath) == entry.cwd = dirPath /\ IsLive(entry)

\* WHERE (cwd = ? OR cwd LIKE ?) AND deleted_at IS NULL, bound to (dirPath, dirPath + "/%")
MatchRecursive(entry, dirPath) ==
  (entry.cwd = dirPath \/ Like(dirPath \o <<SLASH, "%">>, entry.cwd)) /\ IsLive(entry)

Matches(entry, dirPath, recursive) ==
  IF recursive THEN MatchRecursive(entry, dirPath) ELSE MatchExact(entry, dirPath)

\* SELECT * FROM history WHERE <match>: the matching rows, in rowid order
SelectEntries(db, dirPath, recursive) ==
  SelectSeq(db, LAMBDA entry : Matches(entry, dirPath, recursive))

\* SELECT COUNT(*) FROM history WHERE <match>
CountEntries(db, dirPath, recursive) == Len(SelectEntries(db, dirPath, recursive))

\* UPDATE history SET cwd = ? WHERE id = ?
UpdateCwdById(db, newCwd, id) ==
  [i \in DOMAIN db |-> IF db[i].id = id THEN [db[i] EXCEPT !.cwd = newCwd] ELSE db[i]]

\* a faulty variant: the bulk update with its two parameters bound the other way round
UpdateCwdSwapped(db, toPath, fromPath) ==
  [i \in DOMAIN db |-> IF MatchExact(db[i], toPath) THEN [db[i] EXCEPT !.cwd = fromPath] ELSE db[i]]

\* UPDATE history SET cwd = ? WHERE cwd = ? AND deleted_at IS NULL
UpdateCwdExact(db, toPath, fromPath) ==
  [i \in DOMAIN db |-> IF MatchExact(db[i], fromPath) THEN [db[i] EXCEPT !.cwd = toPath] ELSE db[i]]

\* a faulty variant: the naive remap: toPath, a separator, and what follows fromPath's
\* separator, also for the directory itself
MovedCwdJoined(entry, fromPath, toPath) ==
  toPath \o <<SLASH>> \o Slice(entry.cwd, Len(fromPath) + 1)

\* the cwd a recursive move gives an entry: toPath for the directory itself,
\* else toPath followed by what comes after the first fromPath.length characters
MovedCwd(entry, fromPath, toPath) ==
  IF entry.cwd = fromPath THEN toPath ELSE toPath \o Slice(entry.cwd, Len(fromPath))

\* a faulty variant: the copy keeps the cwd of its source
CopiedCwdOfSource(entry, fromPath, toPath, recursive) == entry.cwd

\* the cwd a copy gives an entry
CopiedCwd(entry, fromPath, toPath, recursive) ==
  IF recursive /\ entry.cwd # fromPath
    THEN toPath \o Slice(entry.cwd, Len(fromPath))
    ELSE toPath

\* randomUUID(): an identifier no row of the store carries
randomUUID(db) == CHOOSE n \in 1..(Len(db) + 1) : \A i \in DOMAIN db : db[i].id # n

\* the row copyHistory inserts for an entry
CopiedRow(db, entry, newCwd) ==
  [id |-> randomUUID(db), timestamp |-> entry.timestamp, duration |-> entry.duration,
   exit |-> entry.exit, command |-> entry.command, cwd |-> newCwd,
   session |-> entry.session, hostname |-> entry.hostname, deleted_at |-> entry.deleted_at]

\* the first statement of a batch that the store rejects, 0 when none is
FirstRejected(rejected) ==
  IF rejected = {} THEN 0 ELSE CHOOSE k \in rejected : \A j \in rejected : k <= j

\* the update loop of a recursive move over entries[i..n]
RECURSIVE MoveLoop(_, _, _, _, _, _)
MoveLoop(db, entries, i, n, fromPath, toPath) ==
  IF i > n THEN db
  ELSE MoveLoop(UpdateCwdById(db, MovedCwd(entries[i], fromPath, toPath), entries[i].id),
                entries, i + 1, n, fromPath, toPath)

\* what an operation leaves: the store, the number it returns (or logs), whether
\* it threw instead of returning, and the ids it logged as "Failed to copy entry"
Returned(db, n) == [db |-> db, ret |-> n, threw |-> FALSE, failed |-> <<>>]
Threw(db) == [db |-> db, ret |-> 0, threw |-> TRUE, failed |-> <<>>]

\* moveHistory; `rejected` are the update statements (numbered from 1) the store rejects
moveHistory(db, fromDir, toDir, options, e, rejected) ==
  LET fromPath == normalizePath(fromDir, e)
      toPath   == normalizePath(toDir, e)
      entries  == SelectEntries(db, fromPath, options.recursive)
      count    == Len(entries)
      bad      == FirstRejected(rejected)
  IN  IF fromPath = THROWN \/ toPath = THROWN THEN Threw(db)
      ELSE IF count = 0 THEN Returned(db, 0)
      ELSE IF options.dryRun THEN Returned(db, count)
      ELSE IF options.recursive
        THEN IF bad \in 1..count
               THEN Threw(MoveLoop(db, entries, 1, bad - 1, fromPath, toPath))
               ELSE Returned(MoveLoop(db, entries, 1, count, fromPath, toPath), count)
        ELSE IF bad = 1 THEN Threw(db)
             ELSE Returned(UpdateCwdExact(db, toPath, fromPath), count)

\* a faulty variant: the insert loop with the try around the loop, not in it: the
\* first failed insert ends the batch
RECURSIVE CopyLoopAborting(_, _, _, _, _, _, _, _, _)
CopyLoopAborting(db, entries, i, copied, failed, fromPath, toPath, recursive, rejected) ==
  IF i > Len(entries) THEN [Returned(db, copied) EXCEPT !.failed = failed]
  ELSE IF i \in rejected
    THEN [Returned(db, copied) EXCEPT !.failed = Append(failed, entries[i].id)]
    ELSE CopyLoopAborting(Append(db, CopiedRow(db, entries[i],
                                   CopiedCwd(entries[i], fromPath, toPath, recursive))),
                          entries, i + 1, copied + 1, failed, fromPath, toPath, recursive, rejected)

\* the insert loop of copyHistory over entries[i..]; yields the store and the
\* number copied
RECURSIVE CopyLoop(_, _, _, _, _, _, _, _, _)
CopyLoop(db, entries, i, copied, failed, fromPath, toPath, recursive, rejected) ==
  IF i > Len(entries) THEN [Returned(db, copied) EXCEPT !.failed = failed]
  ELSE IF i \in rejected
    THEN CopyLoop(db, entries, i + 1, copied, Append(failed, entries[i].id),
                  fromPath, toPath, recursive, rejected)
    ELSE CopyLoop(Append(db, CopiedRow(db, entries[i],
                                       CopiedCwd(entries[i], fromPath, toPath, recursive))),
                  entries, i + 1, copied + 1, failed, fromPath, toPath, recursive, rejected)

\* a faulty variant: copyHistory without its dry-run return
copyHistoryEager(db, fromDir, toDir, options, e, rejected) ==
  LET fromPath == normalizePath(fromDir, e)
      toPath   == normalizePath(toDir, e)
      entries  == SelectEntries(db, fromPath, options.recursive)
  IN  IF fromPath = THROWN \/ toPath = THROWN THEN Threw(db)
      ELSE IF Len(entries) = 0 THEN Returned(db, 0)
      ELSE CopyLoop(db, entries, 1, 0, <<>>, fromPath, toPath, options.recursive, rejected)

\* copyHistory; `rejected` are the insert statements (numbered from 1) the store rejects
copyHistory(db, fromDir, toDir, options, e, rejected) ==
  LET fromPath == normalizePath(fromDir, e)
      toPath   == normalizePath(toDir, e)
      entries  == SelectEntries(db, fromPath, options.recursive)
  IN  IF fromPath = THROWN \/ toPath = THROWN THEN Threw(db)
      ELSE IF Len(entries) = 0 THEN Returned(db, 0)
      ELSE IF options.dryRun THEN Returned(db, Len(entries))
      ELSE CopyLoop(db, entries, 1, 0, <<>>, fromPath, toPath, options.recursive, rejected)

\* countHistory: the count it prints
countHistory(db, dir, recursive, e) ==
  LET dirPath == normalizePath(dir, e)
  IN  IF dirPath = THROWN THEN Threw(db)
      ELSE Returned(db, CountEntries(db, dirPath, recursive))

\* ORDER BY timestamp DESC LIMIT ?: every sequence of distinct rows of `entries`,
\* newest first, that a limit of `limit` rows allows (rows of equal timestamp
\* come in either order)
Listings(entries, limit) ==
  LET n == IF limit < Len(entries) THEN limit ELSE Len(entries)
  IN  { [k \in 1..n |-> entries[f[k]]] :
          f \in { g \in [1..n -> 1..Len(entries)] :
                    /\ \A a, b \in 1..n : a < b =>
                         /\ g[a] # g[b]
                         /\ entries[g[a]].timestamp >= entries[g[b]].timestamp
                    /\ \A j \in 1..Len(entries) :
                         (\A a \in 1..n : g[a] # j) =>
                           \A a \in 1..n : entries[g[a]].timestamp >= entries[j].timestamp } }

\* listHistory: the listings it may print
listHistory(db, dir, limit, recursive, e) ==
  LET dirPath == normalizePath(dir, e)
  IN  IF dirPath = THROWN THEN {}
      ELSE Listings(SelectEntries(db, dirPath, recursive), limit)

-----------------------------------------------------------------------------
(* The command line *)

CMD_MOVE  == <<"m","o","v","e">>
CMD_COPY  == <<"c","o","p","y">>
CMD_LIST  == <<"l","i","s","t">>
CMD_COUNT == <<"c","o","u","n","t">>
FLAG_R         == <<"-","r">>
FLAG_RECURSIVE == <<"-","-","r","e","c","u","r","s","i","v","e">>
FLAG_DRY_RUN   == <<"-","-","d","r","y","-","r","u","n">>
FLAG_DB        == <<"-","-","d","b">>
FLAG_HELP      == <<"-","-","h","e","l","p">>
FLAG_H         == <<"-","h">>

\* args.length === 0 || args.includes("--help") || args.includes("-h")
WantsHelp(args) == Len(args) = 0 \/ Includes(args, FLAG_HELP) \/ Includes(args, FLAG_H)

\* args.includes("--dry-run")
DryRunFlag(args) == Includes(args, FLAG_DRY_RUN)

\* args.includes("-r") || args.includes("--recursive")
RecursiveFlag(args) == Includes(args, FLAG_R) \/ Includes(args, FLAG_RECURSIVE)

Options(args) == [dryRun |-> DryRunFlag(args), recursive |-> RecursiveFlag(args)]

\* args[i] of the code (0-based); "" stands for undefined, which is as falsy
Arg(args, i) == IF i + 1 \in 1..Len(args) THEN args[i + 1] ELSE <<>>

\* getAtuinDbPath
getAtuinDbPath(e) ==
  IF e.ATUIN_DB_PATH # <<>> THEN e.ATUIN_DB_PATH
  ELSE IF Home(e) = <<>> THEN THROWN
  ELSE LET dataDir == IF e.XDG_DATA_HOME # <<>> THEN e.XDG_DATA_HOME
                      ELSE Join(Join(Home(e), <<".","l","o","c","a","l">>), <<"s","h","a","r","e">>)
       IN  Join(Join(dataDir, <<"a","t","u","i","n">>),
                <<"h","i","s","t","o","r","y",".","d","b">>)

\* the database path main settles on: --db <path> overrides the environment's,
\* which is computed (and may throw) first
DbPath(args, e) ==
  LET dbIndex == IndexOf(args, FLAG_DB)
      dbArg   == Arg(args, dbIndex + 1)
  IN  IF getAtuinDbPath(e) = THROWN THEN THROWN
      ELSE IF dbIndex # -1 /\ dbArg # <<>> THEN Resolve(dbArg, e.cwd)
      ELSE getAtuinDbPath(e)

\* existsSync(path)
ExistsSync(path, e) == Resolve(path, e.cwd) \in e.files

Digits == <<"0","1","2","3","4","5","6","7","8","9">>

IsDigit(c) == \E i \in 1..Len(Digits) : Digits[i] = c

DigitValue(c) == (CHOOSE i \in 1..Len(Digits) : Digits[i] = c) - 1

\* parseInt(s, 10) of a string of decimal digits
RECURSIVE ParseDigits(_, _)
ParseDigits(s, acc) ==
  IF s = <<>> \/ ~IsDigit(Head(s)) THEN acc
  ELSE ParseDigits(Tail(s), acc * Len(Digits) + DigitValue(Head(s)))

parseInt(s) == ParseDigits(s, 0)

\* the default limit of list
DefaultLimit == 10

\* args[2] && !args[2].startsWith("-") ? parseInt(args[2], 10) : 10
ListLimit(args) ==
  IF Arg(args, 2) # <<>> /\ ~StartsWith(Arg(args, 2), <<"-">>)
    THEN parseInt(Arg(args, 2))
    ELSE DefaultLimit

\* the argument checks of a case of main's switch: too few arguments, or an
\* empty <from>/<to>/<dir>
UsageProblem(args) ==
  LET command == Arg(args, 0)
  IN  \/ /\ command \in {CMD_MOVE, CMD_COPY}
         /\ (Len(args) < 3 \/ Arg(args, 1) = <<>> \/ Arg(args, 2) = <<>>)
      \/ /\ command \in {CMD_LIST, CMD_COUNT}
         /\ (Len(args) < 2 \/ Arg(args, 1) = <<>>)

-----------------------------------------------------------------------------
(* Inputs: directories, command lines, environments and initial stores *)

DIR_A       == <<"/","a">>
DIR_A_B     == <<"/","a","/","b">>
DIR_UPPER_A == <<"/","A">>
DIR_ANY_ONE == <<"/","_">>
DIR_ANY_RUN == <<"/","%">>
DIR_HOME_B  == <<"~","/","b">>
DB_FILE     == <<"/","d","b">>
DATA_DIR    == <<"/","d">>
DEFAULT_DB  == <<"/","d","/","a","t","u","i","n","/","h","i","s","t","o","r","y",".","d","b">>

Dirs == {DIR_A, DIR_HOME_B, DIR_ANY_ONE}

FlagSets == {<<>>, <<FLAG_R>>, <<FLAG_DRY_RUN>>, <<FLAG_RECURSIVE, FLAG_DRY_RUN>>}

Argvs ==
  { <<c, f, t>> \o fl : c \in {CMD_MOVE, CMD_COPY}, f \in Dirs, t \in Dirs, fl \in FlagSets }
  \cup { <<CMD_COUNT, d>> \o fl : d \in Dirs \cup {DIR_ANY_RUN, DIR_UPPER_A}, fl \in {<<>>, <<FLAG_R>>} }
  \cup { <<CMD_LIST, d>> \o fl : d \in {DIR_A, DIR_ANY_ONE},
                                 fl \in {<<>>, <<FLAG_R>>, <<(<<"1">>)>>, <<(<<"1">>), FLAG_R>>} }
  \cup { <<>>, <<FLAG_HELP>>, <<CMD_MOVE, DIR_A, DIR_UPPER_A, FLAG_H>>,
         <<CMD_MOVE>>, <<CMD_MOVE, DIR_A>>, <<CMD_MOVE, DIR_A, FLAG_R>>,
         <<CMD_MOVE, DIR_A, FLAG_DRY_RUN>>,
         <<CMD_COPY, DIR_A, FLAG_DB, DB_FILE>>, <<CMD_COPY, <<>>, DIR_A>>,
         <<CMD_COUNT>>, <<CMD_LIST>>, <<CMD_COUNT, DIR_A, FLAG_DB, DB_FILE>>,
         <<(<<"m","v">>), DIR_A, DIR_UPPER_A>> }

\* HOME set, the store at its default place under XDG_DATA_HOME
EnvUsual ==
  [HOME |-> DIR_A, USERPROFILE |-> <<>>, ATUIN_DB_PATH |-> <<>>, XDG_DATA_HOME |-> DATA_DIR,
   cwd |-> <<SLASH>>, files |-> {DEFAULT_DB}]
\* no home directory, the store named by ATUIN_DB_PATH
EnvNoHome ==
  [HOME |-> <<>>, USERPROFILE |-> <<>>, ATUIN_DB_PATH |-> DB_FILE, XDG_DATA_HOME |-> <<>>,
   cwd |-> <<SLASH>>, files |-> {DB_FILE}]
\* no store at the default place, one at /db
EnvNoStore ==
  [HOME |-> <<>>, USERPROFILE |-> DIR_A, ATUIN_DB_PATH |-> <<>>, XDG_DATA_HOME |-> <<>>,
   cwd |-> <<SLASH>>, files |-> {DB_FILE}]
\* neither a home directory nor ATUIN_DB_PATH
EnvBare ==
  [HOME |-> <<>>, USERPROFILE |-> <<>>, ATUIN_DB_PATH |-> <<>>, XDG_DATA_HOME |-> <<>>,
   cwd |-> <<SLASH>>, files |-> {DB_FILE}]

Envs == {EnvUsual, EnvNoHome, EnvNoStore, EnvBare}

Row(id, cwd, deleted_at) ==
  [id |-> id, timestamp |-> id, duration |-> 0, exit |-> 0, command |-> "ls",
   cwd |-> cwd, session |-> "s", hostname |-> "h", deleted_at |-> deleted_at]

\* two live entries, one in a directory and one nested under it
StoreNested == <<Row(1, DIR_A, NULL), Row(2, DIR_A_B, NULL)>>
\* a live entry and a soft-deleted one of the same directory
StoreDeleted == <<Row(1, DIR_A, NULL), Row(2, DIR_A, <<1>>)>>

\* the store and the environment the tool is first run in
Boots ==
  {<<StoreNested, EnvUsual>>} \cup {<<StoreDeleted, e>> : e \in Envs}

-----------------------------------------------------------------------------
(* main, one invocation after another *)

NoResult ==
  [exit |-> 0, opened |-> FALSE, closed |-> FALSE, ran |-> "none", ret |-> 0,
   threw |-> FALSE, failed |-> <<>>, listed |-> <<>>]

TypeOK ==
  /\ pc \in {"idle", "opened", "catch", "finally", "exited"}
  /\ env \in Envs
  /\ argv \in Argvs
  /\ result.exit \in {0, 1}

Init ==
  /\ \E boot \in Boots : history = boot[1] /\ env = boot[2]
  /\ prev = history
  /\ argv = <<>>
  /\ pc = "idle"
  /\ result = NoResult
  /\ tree = {}
  /\ pending = {}
  /\ scannedTools = <<>>
  /\ scanPc = "off"
  /\ rootDir = <<>>
  /\ outputFile = <<>>
  /\ generateJustfile = FALSE
  /\ stdout = <<>>
  /\ written = {}

\* process.exit(code): the process ends there and then
Exit(code, r) == pc' = "exited" /\ result' = [r EXCEPT !.exit = code]

\* a new invocation of the tool with arguments a
Invoked(a) ==
  /\ pc = "idle"
  /\ argv' = a
  /\ prev' = history
  /\ UNCHANGED <<history, env, scanVars>>

\* main prints the usage and exits 0 (lines 350-353)
ShowHelp(a) ==
  /\ Invoked(a)
  /\ WantsHelp(a)
  /\ Exit(0, NoResult)

\* getAtuinDbPath throws outside main's try: the rejected promise ends the process with 1
DbPathThrows(a) ==
  /\ Invoked(a)
  /\ ~WantsHelp(a)
  /\ DbPath(a, env) = THROWN
  /\ Exit(1, NoResult)

\* the database file is not there (lines 367-374)
StoreMissing(a) ==
  /\ Invoked(a)
  /\ ~WantsHelp(a)
  /\ DbPath(a, env) # THROWN
  /\ ~ExistsSync(DbPath(a, env), env)
  /\ Exit(1, NoResult)

\* new Database(dbPath) (line 378)
OpenStore(a) ==
  /\ Invoked(a)
  /\ ~WantsHelp(a)
  /\ DbPath(a, env) # THROWN
  /\ ExistsSync(DbPath(a, env), env)
  /\ pc' = "opened"
  /\ result' = [NoResult EXCEPT !.opened = TRUE]

\* the bounds of the model on what a batch may write
WithinBounds(db) ==
  /\ Len(db) <= MaxRows
  /\ \A i \in DOMAIN db : Len(db[i].cwd) <= MaxPathLen

\* the insert statements a copy issues: one for each matching entry
CopyStatements(db, args, e) ==
  IF normalizePath(Arg(args, 1), e) = THROWN \/ DryRunFlag(args) THEN 0
  ELSE CountEntries(db, normalizePath(Arg(args, 1), e), RecursiveFlag(args))

\* the update statements a move issues: one for each matching entry when
\* recursive, else one for them all
MoveStatements(db, args, e) ==
  LET n == CopyStatements(db, args, e)
  IN  IF RecursiveFlag(args) \/ n = 0 THEN n ELSE 1

\* an operation of main's try block has run: a throw goes to the catch block,
\* a return falls through to the finally block
Ran(name, out) ==
  /\ WithinBounds(out.db)
  /\ history' = out.db
  /\ IF out.threw
       THEN /\ pc' = "catch"
            /\ result' = [result EXCEPT !.ran = name, !.threw = TRUE]
       ELSE /\ pc' = "finally"
            /\ result' = [result EXCEPT !.ran = name, !.ret = out.ret, !.failed = out.failed]
  /\ UNCHANGED <<prev, argv, env, scanVars>>

\* a case of the switch finds its arguments missing and exits 1
UsageError ==
  /\ pc = "opened"
  /\ UsageProblem(argv)
  /\ Exit(1, result)
  /\ UNCHANGED <<history, prev, argv, env, scanVars>>

\* the default case of the switch
UnknownCommand ==
  /\ pc = "opened"
  /\ Arg(argv, 0) \notin {CMD_MOVE, CMD_COPY, CMD_LIST, CMD_COUNT}
  /\ Exit(1, result)
  /\ UNCHANGED <<history, prev, argv, env, scanVars>>

Move ==
  /\ pc = "opened"
  /\ Arg(argv, 0) = CMD_MOVE
  /\ ~UsageProblem(argv)
  /\ \E rejected \in {{}} \cup {{k} : k \in 1..MoveStatements(history, argv, env)} :
       Ran("move", moveHistory(history, Arg(argv, 1), Arg(argv, 2), Options(argv), env, rejected))

Copy ==
  /\ pc = "opened"
  /\ Arg(argv, 0) = CMD_COPY
  /\ ~UsageProblem(argv)
  /\ \E rejected \in SUBSET (1..CopyStatements(history, argv, env)) :
       Ran("copy", copyHistory(history, Arg(argv, 1), Arg(argv, 2), Options(argv), env, rejected))

Count ==
  /\ pc = "opened"
  /\ Arg(argv, 0) = CMD_COUNT
  /\ ~UsageProblem(argv)
  /\ Ran("count", countHistory(history, Arg(argv, 1), RecursiveFlag(argv), env))

List ==
  /\ pc = "opened"
  /\ Arg(argv, 0) = CMD_LIST
  /\ ~UsageProblem(argv)
  /\ LET outs == listHistory(history, Arg(argv, 1), ListLimit(argv), RecursiveFlag(argv), env)
     IN  IF outs = {}
           THEN /\ pc' = "catch"
                /\ result' = [result EXCEPT !.ran = "list", !.threw = TRUE]
           ELSE /\ pc' = "finally"
                /\ \E out \in outs : result' = [result EXCEPT !.ran = "list", !.listed = out]
  /\ UNCHANGED <<history, prev, argv, env, scanVars>>

\* the catch block reports the error and exits 1 (lines 451-453)
Catch ==
  /\ pc = "catch"
  /\ Exit(1, result)
  /\ UNCHANGED <<history, prev, argv, env, scanVars>>

\* the finally block closes the database, and main returns: exit code 0
Finally ==
  /\ pc = "finally"
  /\ pc' = "exited"
  /\ result' = [result EXCEPT !.closed = TRUE, !.exit = 0]
  /\ UNCHANGED <<history, prev, argv, env, scanVars>>

\* the process is gone; the next invocation is a new process
Terminated ==
  /\ pc = "exited"
  /\ pc' = "idle"
  /\ argv' = <<>>
  /\ prev' = history
  /\ result' = NoResult
  /\ UNCHANGED <<history, env, scanVars>>

Next ==
  \/ \E a \in Argvs : ShowHelp(a)
  \/ \E a \in Argvs : DbPathThrows(a)
  \/ \E a \in Argvs : StoreMissing(a)
  \/ \E a \in Argvs : OpenStore(a)
  \/ UsageError
  \/ UnknownCommand
  \/ Move
  \/ Copy
  \/ Count
  \/ List
  \/ Catch
  \/ Finally
  \/ Terminated

Spec == Init /\ [][Next]_vars

-----------------------------------------------------------------------------
(* The tools indexer: scanToolsDirectory *)

NODE_MODULES == <<"n","o","d","e","_","m","o","d","u","l","e","s">>

\* s.includes(sub)
Contains(s, sub) ==
  \E i \in 1..(Len(s) - Len(sub) + 1) : SubSeq(s, i, i + Len(sub) - 1) = sub

\* path.dirname(p) of a relative path that does not end in a separator
Dirname(p) ==
  IF \A i \in 1..Len(p) : p[i] # SLASH THEN <<".">>
  ELSE SubSeq(p, 1, (CHOOSE i \in 1..Len(p) :
                       p[i] = SLASH /\ \A j \in (i + 1)..Len(p) : p[j] # SLASH) - 1)

\* the entry scanToolsDirectory pushes for a README (lines 132-145)
ToolOf(file) ==
  [name |-> file.name, purpose |-> file.purpose,
   link |-> <<".", SLASH>> \o Dirname(file.path), path |-> file.path,
   lang |-> IF file.hasBunLock THEN "bun" ELSE "undefined"]

\* if (file.includes("node_modules")) continue
SkippedAsDependency(file) == Contains(file.path, NODE_MODULES)

\* data.name && data.purpose ("" stands for a missing field, which is as falsy)
HasNameAndPurpose(file) == file.name # <<>> /\ file.purpose # <<>>

README_ROOT      == <<"R","E","A","D","M","E",".","m","d">>
README_TOOL      == <<"t","/","R","E","A","D","M","E",".","m","d">>
README_DEP       == <<"t","/","n","o","d","e","_","m","o","d","u","l","e","s","/","p","/","R","E","A","D","M","E",".","m","d">>
README_LOOKALIKE == <<"n","o","d","e","_","m","o","d","u","l","e","s","_","o","l","d","/","R","E","A","D","M","E",".","m","d">>

ReadmePaths == {README_ROOT, README_TOOL, README_DEP, README_LOOKALIKE}

\* the name in a README's front matter
NameAt(path) ==
  IF path = README_ROOT THEN <<"b">>
  ELSE IF path = README_TOOL THEN <<"A">>
  ELSE IF path = README_DEP THEN <<"c">>
  ELSE <<"a">>

\* a README with name and purpose; one with no purpose; one with no name, in
\* a directory with a bun.lock; one that cannot be read
ReadmeKinds == {"tool", "no purpose", "no name", "unreadable"}

Readme(path, kind) ==
  [path |-> path,
   readable |-> kind # "unreadable",
   name |-> IF kind = "no name" THEN <<>> ELSE NameAt(path),
   purpose |-> IF kind = "no purpose" THEN <<>> ELSE <<"p">>,
   hasBunLock |-> kind = "no name" \/ path = README_TOOL]

\* the directory trees scanned: every path holds a README of some kind
Trees == { { Readme(path, kinds[path]) : path \in ReadmePaths } :
             kinds \in [ReadmePaths -> ReadmeKinds] }

InitScan ==
  /\ tree \in Trees
  /\ pending = tree
  /\ scannedTools = <<>>
  /\ scanPc = "scanning"
  /\ rootDir = <<".">>
  /\ outputFile = <<>>
  /\ generateJustfile = FALSE
  /\ stdout = <<>>
  /\ written = {}
  /\ history = <<>>
  /\ prev = <<>>
  /\ argv = <<>>
  /\ env = EnvUsual
  /\ pc = "idle"
  /\ result = NoResult

\* the glob yields a file, in whatever order the file system gives
Yielded(file) ==
  /\ scanPc = "scanning"
  /\ file \in pending
  /\ pending' = pending \ {file}
  /\ UNCHANGED <<tree, scanPc, indexVars, moverVars>>

\* a path that contains "node_modules" is passed over (line 125)
SkipDependency(file) ==
  /\ Yielded(file)
  /\ SkippedAsDependency(file)
  /\ UNCHANGED scannedTools

\* reading or parsing the file throws: logged, and the scan goes on (lines 147-149)
ReadFails(file) ==
  /\ Yielded(file)
  /\ ~SkippedAsDependency(file)
  /\ ~file.readable
  /\ UNCHANGED scannedTools

\* front matter without a name or a purpose: nothing is pushed (line 131)
SkipIncomplete(file) ==
  /\ Yielded(file)
  /\ ~SkippedAsDependency(file)
  /\ file.readable
  /\ ~HasNameAndPurpose(file)
  /\ UNCHANGED scannedTools

\* scannedTools.push(...) (lines 139-145)
PushTool(file) ==
  /\ Yielded(file)
  /\ ~SkippedAsDependency(file)
  /\ file.readable
  /\ HasNameAndPurpose(file)
  /\ scannedTools' = Append(scannedTools, ToolOf(file))

\* the glob is exhausted: return scannedTools (line 152)
ScanReturns ==
  /\ scanPc = "scanning"
  /\ pending = {}
  /\ scanPc' = "returned"
  /\ UNCHANGED <<tree, pending, scannedTools, indexVars, moverVars>>

NextScan ==
  \/ \E file \in pending : SkipDependency(file)
  \/ \E file \in pending : ReadFails(file)
  \/ \E file \in pending : SkipIncomplete(file)
  \/ \E file \in pending : PushTool(file)
  \/ ScanReturns

SpecScan == InitScan /\ [][NextScan]_vars

-----------------------------------------------------------------------------
(* The tools indexer: the script around scanToolsDirectory *)

FLAG_JUST == <<"-","-","j","u","s","t">>

\* args.toSpliced(i, 1), i 0-based
ToSpliced(args, i) == SubSeq(args, 1, i) \o SubSeq(args, i + 2, Len(args))

\* the arguments the positionals are read from: args, less its first --just
ArgsWithoutJustFlag(args) ==
  IF IndexOf(args, FLAG_JUST) # -1 THEN ToSpliced(args, IndexOf(args, FLAG_JUST)) ELSE args

\* rootDir, outputFile and generateJustfile as lines 90-101 leave them
\* (<<>> stands for undefined, which is as falsy as "")
RootDirOf(args) == Arg(ArgsWithoutJustFlag(args), 0)
OutputFileOf(args) == Arg(ArgsWithoutJustFlag(args), 1)
GenerateJustfileOf(args) == IndexOf(args, FLAG_JUST) # -1

\* String.prototype.localeCompare under the root collation, for names made of
\* ASCII letters: the letters are compared first, whatever their case, and
\* only between names with the same letters does case decide, lower case first
IsUpperCase(c) == \E i \in 1..Len(UpperCase) : UpperCase[i] = c

LetterWeight(c) ==
  IF \E i \in 1..Len(LowerCase) : LowerCase[i] = Fold(c)
    THEN CHOOSE i \in 1..Len(LowerCase) : LowerCase[i] = Fold(c)
    ELSE 0

RECURSIVE CompareLetters(_, _)
CompareLetters(a, b) ==
  IF a = <<>> THEN (IF b = <<>> THEN 0 ELSE -1)
  ELSE IF b = <<>> THEN 1
  ELSE IF LetterWeight(Head(a)) < LetterWeight(Head(b)) THEN -1
  ELSE IF LetterWeight(Head(a)) > LetterWeight(Head(b)) THEN 1
  ELSE CompareLetters(Tail(a), Tail(b))

\* a and b have the same letters
RECURSIVE CompareCase(_, _)
CompareCase(a, b) ==
  IF a = <<>> THEN 0
  ELSE IF IsUpperCase(Head(a)) = IsUpperCase(Head(b)) THEN CompareCase(Tail(a), Tail(b))
  ELSE IF IsUpperCase(Head(b)) THEN -1
  ELSE 1

localeCompare(a, b) ==
  IF CompareLetters(a, b) # 0 THEN CompareLetters(a, b) ELSE CompareCase(a, b)

\* (a, b) => a.name.localeCompare(b.name)
CompareTools(a, b) == localeCompare(a.name, b.name)

\* tool goes after the last entry that does not compare greater
RECURSIVE InsertTool(_, _)
InsertTool(sorted, tool) ==
  IF sorted = <<>> THEN <<tool>>
  ELSE IF CompareTools(Head(sorted), tool) <= 0
    THEN <<Head(sorted)>> \o InsertTool(Tail(sorted), tool)
    ELSE <<tool>> \o sorted

\* Array.prototype.sort with CompareTools: the stable sort of the array
RECURSIVE sort(_)
sort(tools) ==
  IF tools = <<>> THEN <<>>
  ELSE InsertTool(sort(SubSeq(tools, 1, Len(tools) - 1)), tools[Len(tools)])

\* Handlebars' escapeExpression, which {{...}} applies to the value it prints
\* (the backquote, escaped alike, is in no name, link or purpose here)
EscapeChar(c) ==
  IF c = "&" THEN <<"&","a","m","p",";">>
  ELSE IF c = "<" THEN <<"&","l","t",";">>
  ELSE IF c = ">" THEN <<"&","g","t",";">>
  ELSE IF c = "\"" THEN <<"&","q","u","o","t",";">>
  ELSE IF c = "'" THEN <<"&","#","x","2","7",";">>
  ELSE IF c = "=" THEN <<"&","#","x","3","D",";">>
  ELSE <<c>>

RECURSIVE escapeExpression(_)
escapeExpression(s) ==
  IF s = <<>> THEN <<>> ELSE EscapeChar(Head(s)) \o escapeExpression(Tail(s))

\* templateSource up to {{#each tools}} (the line of a block tag is dropped)
TemplateHead ==
  <<"\n","#"," ","T","o","o","l","s","\n","\n","|"," ","N","a","m","e"," ","|"," ","P","u","r",
  "p","o","s","e"," ","|","\n","|","-","-","-","-","-","-","|","-","-","-","-","-","-","-","-",
  "-","|","\n">>

\* | [{{name}}]({{link}}) | {{purpose}} |
TemplateRow(tool) ==
  <<"|"," ","[">> \o escapeExpression(tool.name) \o <<"]","(">>
    \o escapeExpression(tool.link) \o <<")"," ","|"," ">>
    \o escapeExpression(tool.purpose) \o <<" ","|","\n">>

RECURSIVE TemplateRows(_)
TemplateRows(tools) ==
  IF tools = <<>> THEN <<>> ELSE TemplateRow(Head(tools)) \o TemplateRows(Tail(tools))

\* template({ tools })
template(tools) == TemplateHead \o TemplateRows(tools)

\* justfileTemplate up to {{#each tools}}
JustfileHead ==
  <<"#"," ","A","u","t","o","-","g","e","n","e","r","a","t","e","d","."," ","D","o"," ","n","o",
  "t"," ","e","d","i","t"," ","m","a","n","u","a","l","l","y",".","\n","\n","d","e","f","a","u",
  "l","t",":"," ","l","i","s","t","\n","\n","l","i","s","t",":","\n"," "," "," "," ","@","c","a",
  "t"," ","R","E","A","D","M","E",".","m","d","\n","\n","i","n","d","e","x",":","\n"," "," "," ",
  " ","c","d"," ","t","o","o","l","s","-","i","n","d","e","x","e","r"," ","&","&"," ","b","u","n",
  " ","r","u","n"," ","i","n","d","e","x",".","t","s"," ",".","."," ",".",".","/","R","E","A","D",
  "M","E",".","m","d"," ","-","-","j","u","s","t","\n","\n","i","n","s","t","a","l","l","-","a",
  "l","l",":","\n">>

JUSTFILE == <<"J","u","s","t","f","i","l","e">>

\* tool.path.split("/")[0]
ToolDir(tool) == SplitPath(tool.path)[1]

\* "    cd {{toolDir}} && bun install" for the tools tagged bun, in order
RECURSIVE JustfileTasks(_)
JustfileTasks(tools) ==
  IF tools = <<>> THEN <<>>
  ELSE (IF Head(tools).lang = "bun"
          THEN <<" "," "," "," ","c","d"," ">> \o escapeExpression(ToolDir(Head(tools))) \o <<" ","&","&"," ","b","u","n"," ","i","n","s","t","a","l","l","\n">>
          ELSE <<>>)
       \o JustfileTasks(Tail(tools))

generateJustfileContent(tools) == JustfileHead \o JustfileTasks(tools)

\* outputFile ? dirname(outputFile) : rootDir
OutputDir == IF outputFile # <<>> THEN Dirname(outputFile) ELSE rootDir

\* join(outputDir, "Justfile"), which drops a leading "./"
JustfilePath(outputDir) == IF outputDir = <<".">> THEN JUSTFILE ELSE Join(outputDir, JUSTFILE)

\* Bun.write(path, content): the file is created or replaced
BunWrite(files, path, content) ==
  {f \in files : f.path # path} \cup {[path |-> path, content |-> content]}

ROOT_DIR     == <<".">>
OUT_FILE     == <<"o","/","I",".","m","d">>
README_OTHER == <<"u","/","R","E","A","D","M","E",".","m","d">>

\* the command lines of the indexer
IndexArgvs ==
  { <<ROOT_DIR>>, <<ROOT_DIR, OUT_FILE>>, <<ROOT_DIR, FLAG_JUST>>,
    <<FLAG_JUST, ROOT_DIR, OUT_FILE>>, <<>>, <<FLAG_JUST>> }

\* a purpose of one line, and one written as a folded block scalar
\* (purpose: >), whose value ends in a line break
PURPOSE_LINE   == <<"p">>
PURPOSE_FOLDED == <<"p", "\n">>

\* a README with the front matter given (<<>> for a missing field)
NamedReadme(path, name, purpose, readable) ==
  [path |-> path, readable |-> readable, name |-> name, purpose |-> purpose,
   hasBunLock |-> path = README_TOOL]

\* the trees indexed: three READMEs whose names tie, differ in case only, or
\* are a prefix of one another, and one under node_modules
IndexTrees ==
  { { NamedReadme(README_ROOT, n1, PURPOSE_LINE, readable),
      NamedReadme(README_TOOL, n2, purpose, TRUE),
      NamedReadme(README_OTHER, n3, PURPOSE_LINE, TRUE),
      Readme(README_DEP, "tool") } :
      n1 \in {<<"a">>, <<"A">>, <<"B">>},
      n2 \in {<<"A">>, <<"a", "b">>, <<"B">>},
      n3 \in {<<"a">>, <<"A", "c">>, <<>>},
      purpose \in {PURPOSE_LINE, PURPOSE_FOLDED},
      readable \in BOOLEAN }

InitIndex ==
  /\ tree \in IndexTrees
  /\ pending = tree
  /\ scannedTools = <<>>
  /\ scanPc = "start"
  /\ rootDir = <<>>
  /\ outputFile = <<>>
  /\ generateJustfile = FALSE
  /\ stdout = <<>>
  /\ written = {}
  /\ history = <<>>
  /\ prev = <<>>
  /\ argv = <<>>
  /\ env = EnvUsual
  /\ pc = "idle"
  /\ result = NoResult

\* lines 88-101 and 108: the arguments are read and the scan is called
StartScan(args) ==
  /\ scanPc = "start"
  /\ RootDirOf(args) # <<>>
  /\ rootDir' = RootDirOf(args)
  /\ outputFile' = OutputFileOf(args)
  /\ generateJustfile' = GenerateJustfileOf(args)
  /\ scanPc' = "scanning"
  /\ UNCHANGED <<tree, pending, scannedTools, stdout, written, moverVars>>

\* if (!rootDir): usage on the diagnostic stream and process.exit(1)
IndexUsage(args) ==
  /\ scanPc = "start"
  /\ RootDirOf(args) = <<>>
  /\ scanPc' = "exited"
  /\ UNCHANGED <<tree, pending, scannedTools, indexVars, moverVars>>

\* tools.sort(...), in place, on the array the scan returned
SortTools ==
  /\ scanPc = "returned"
  /\ scannedTools' = sort(scannedTools)
  /\ scanPc' = "sorted"
  /\ UNCHANGED <<tree, pending, indexVars, moverVars>>

\* await Bun.write(outputFile, output)
WriteIndex ==
  /\ scanPc = "sorted"
  /\ outputFile # <<>>
  /\ written' = BunWrite(written, outputFile, template(scannedTools))
  /\ scanPc' = "emitted"
  /\ UNCHANGED <<tree, pending, scannedTools, rootDir, outputFile, generateJustfile,
                 stdout, moverVars>>

\* console.log(output), which ends what it prints with a line break
LogIndex ==
  /\ scanPc = "sorted"
  /\ outputFile = <<>>
  /\ stdout' = Append(stdout, template(scannedTools) \o <<"\n">>)
  /\ scanPc' = "emitted"
  /\ UNCHANGED <<tree, pending, scannedTools, rootDir, outputFile, generateJustfile,
                 written, moverVars>>

\* if (generateJustfile): the Justfile is written next to the index (outputDir
\* is never falsy here: rootDir is not, and dirname returns no empty string)
WriteJustfile ==
  /\ scanPc = "emitted"
  /\ generateJustfile
  /\ written' = BunWrite(written, JustfilePath(OutputDir), generateJustfileContent(scannedTools))
  /\ scanPc' = "done"
  /\ UNCHANGED <<tree, pending, scannedTools, rootDir, outputFile, generateJustfile,
                 stdout, moverVars>>

\* no --just: the script ends
IndexDone ==
  /\ scanPc = "emitted"
  /\ ~generateJustfile
  /\ scanPc' = "done"
  /\ UNCHANGED <<tree, pending, scannedTools, indexVars, moverVars>>

NextIndex ==
  \/ \E args \in IndexArgvs : StartScan(args)
  \/ \E args \in IndexArgvs : IndexUsage(args)
  \/ \E file \in pending : SkipDependency(file)
  \/ \E file \in pending : ReadFails(file)
  \/ \E file \in pending : SkipIncomplete(file)
  \/ \E file \in pending : PushTool(file)
  \/ ScanReturns
  \/ SortTools
  \/ WriteIndex
  \/ LogIndex
  \/ WriteJustfile
  \/ IndexDone

SpecIndex == InitIndex /\ [][NextIndex]_vars

-----------------------------------------------------------------------------
(* The properties.  `prev` is the store as the running invocation found it,  *)
(* `history` the store as it is now, `result` what the invocation has done.  *)

\* the normalized <from> and <to> (or <dir>) of the running invocation
LastFrom == normalizePath(Arg(argv, 1), env)
LastTo == normalizePath(Arg(argv, 2), env)
LastOptions == Options(argv)

\* the operation `name` was called and returned
DidReturn(name) == result.ran = name /\ ~result.threw

\* ... and was no dry run
DidRun(name) == DidReturn(name) /\ ~LastOptions.dryRun

\* ... and was a dry run
DidDryRun(name) == DidReturn(name) /\ LastOptions.dryRun

\* every row the invocation found is still there, unchanged
PrevRowsKept ==
  /\ Len(history) >= Len(prev)
  /\ \A i \in DOMAIN prev : history[i] = prev[i]

\* the rows added since the invocation started
AddedRows == SubSeq(history, Len(prev) + 1, Len(history))

LiveCount(db) == Len(SelectSeq(db, IsLive))

MoveAgain == moveHistory(history, Arg(argv, 1), Arg(argv, 2), LastOptions, env, {})

\* C2 as stated: after any successful non-dry-run move(from, to), for every
\* pair of paths and either value of the recursive flag, count(from) is 0 and
\* a second move(from, to) reports 0 affected records.
C2_AsStated ==
  DidRun("move") =>
    /\ CountEntries(history, LastFrom, LastOptions.recursive) = 0
    /\ MoveAgain.ret = 0

\* from and to part ways, ignoring letter case, at a character before which
\* (and at which) from has no '%' and no '_'
PartWays(from, to) ==
  \E i \in 1..Len(from) :
    /\ i <= Len(to)
    /\ Fold(from[i]) # Fold(to[i])
    /\ \A j \in 1..i : from[j] \notin {"%", "_"}

\* C2 amended: after a successful non-dry-run move(from, to), count(from) is
\* 0 and a second move(from, to) reports 0 affected records, provided that,
\* without the recursive flag, to is another path than from, and, with it,
\* that from and to part ways (ignoring letter case) at a character up to
\* which from has neither '%' nor '_'.
C2_MoveEmptiesFrom ==
  (/\ DidRun("move")
   /\ IF LastOptions.recursive THEN PartWays(LastFrom, LastTo) ELSE LastFrom # LastTo)
  => /\ CountEntries(history, LastFrom, LastOptions.recursive) = 0
     /\ ~MoveAgain.threw
     /\ MoveAgain.ret = 0
     /\ MoveAgain.db = history

\* a recursive move has moved a directory's entry and a nested one elsewhere
C2_Witness ==
  /\ DidRun("move")
  /\ pc = "exited"
  /\ LastOptions.recursive
  /\ PartWays(LastFrom, LastTo)
  /\ result.ret = 2
  /\ \E i, j \in DOMAIN prev : prev[i].cwd = LastFrom /\ prev[j].cwd = LastFrom \o <<SLASH, "b">>

\* what a dry run of the running move or copy returns from the store the
\* invocation found
DryRunOfMove ==
  moveHistory(prev, Arg(argv, 1), Arg(argv, 2),
              [dryRun |-> TRUE, recursive |-> LastOptions.recursive], env, {})
DryRunOfCopy ==
  copyHistory(prev, Arg(argv, 1), Arg(argv, 2),
              [dryRun |-> TRUE, recursive |-> LastOptions.recursive], env, {})

\* C3 as stated: a dry run of move or copy leaves every row unchanged, and
\* returns the count that the real run from the same store returns.
C3_AsStated ==
  /\ (DidDryRun("move") \/ DidDryRun("copy")) => history = prev
  /\ DidRun("move") => result.ret = DryRunOfMove.ret
  /\ DidRun("copy") => result.ret = DryRunOfCopy.ret

\* C3 amended: a dry run of move or copy leaves every row unchanged and
\* returns the number of matching entries; a real move that returns reports
\* that same number, and a real copy reports that number less the inserts
\* that failed.
C3_DryRunCountsMatches ==
  /\ (DidDryRun("move") \/ DidDryRun("copy")) =>
       /\ history = prev
       /\ result.ret = CountEntries(prev, LastFrom, LastOptions.recursive)
       /\ result.failed = <<>>
  /\ DidRun("move") => result.ret = DryRunOfMove.ret
  /\ DidRun("copy") => result.ret + Len(result.failed) = DryRunOfCopy.ret

\* a recursive dry run of copy has found two entries
C3_Witness ==
  /\ DidDryRun("copy")
  /\ pc = "exited"
  /\ LastOptions.recursive
  /\ result.ret = 2

\* dir itself, or, when recursive, any path that begins with dir + "/"
LiteralMatch(entry, dir, recursive) ==
  /\ IsLive(entry)
  /\ entry.cwd = dir \/ (recursive /\ StartsWith(entry.cwd, dir \o <<SLASH>>))

LiteralCount(db, dir, recursive) ==
  Len(SelectSeq(db, LAMBDA entry : LiteralMatch(entry, dir, recursive)))

\* C4: what count counts, list lists, move moves and copy copies for a
\* directory dir is exactly the non-deleted entries whose cwd is dir or, when
\* recursive, begins with the literal string dir + "/".
C4_AsStated ==
  /\ DidReturn("count") => result.ret = LiteralCount(prev, LastFrom, LastOptions.recursive)
  /\ DidReturn("list") =>
       \A k \in DOMAIN result.listed :
         LiteralMatch(result.listed[k], LastFrom, LastOptions.recursive)
  /\ (DidDryRun("move") \/ DidDryRun("copy") \/ DidRun("move")) =>
       result.ret = LiteralCount(prev, LastFrom, LastOptions.recursive)
  /\ DidRun("move") =>
       \A i \in DOMAIN prev :
         history[i] # prev[i] => LiteralMatch(prev[i], LastFrom, LastOptions.recursive)
  /\ DidRun("copy") =>
       result.ret + Len(result.failed) = LiteralCount(prev, LastFrom, LastOptions.recursive)

\* the cwd the claim gives an entry of the store that move or copy matched
RemappedCwd(entry) ==
  IF entry.cwd = LastFrom \/ ~LastOptions.recursive THEN LastTo
  ELSE LastTo \o <<SLASH>> \o Slice(entry.cwd, Len(LastFrom) + 1)

\* the entries a copy matched and did not fail to insert, in the order it took them
CopiedEntries ==
  SelectSeq(SelectEntries(prev, LastFrom, LastOptions.recursive),
            LAMBDA entry : \A k \in DOMAIN result.failed : result.failed[k] # entry.id)

\* C5: a recursive move or copy gives an entry whose cwd is from the cwd to,
\* and one whose cwd is from + "/" + rest the cwd to + "/" + rest; a
\* non-recursive one gives every entry it affects the cwd to.
C5_RemapKeepsSuffix ==
  /\ DidRun("move") =>
       \A i \in DOMAIN prev :
         LiteralMatch(prev[i], LastFrom, LastOptions.recursive) =>
           history[i].cwd = RemappedCwd(prev[i])
  /\ DidRun("copy") =>
       /\ Len(AddedRows) = Len(CopiedEntries)
       /\ \A k \in DOMAIN AddedRows :
            LiteralMatch(CopiedEntries[k], LastFrom, LastOptions.recursive) =>
              AddedRows[k].cwd = RemappedCwd(CopiedEntries[k])

\* a recursive move to another directory has moved the directory's own entry
\* and a nested one
C5_Witness ==
  /\ DidRun("move")
  /\ pc = "exited"
  /\ LastOptions.recursive
  /\ LastFrom # LastTo
  /\ \E i, j \in DOMAIN prev :
       /\ prev[i].cwd = LastFrom /\ IsLive(prev[i]) /\ history[i].cwd = LastTo
       /\ prev[j].cwd = LastFrom \o <<SLASH, "b">> /\ IsLive(prev[j])
       /\ history[j].cwd = LastTo \o <<SLASH, "b">>

\* a row but for its id and cwd
Payload(entry) ==
  <<entry.timestamp, entry.duration, entry.exit, entry.command, entry.session,
    entry.hostname, entry.deleted_at>>

LiveRows(db) == SelectSeq(db, IsLive)

C6_Step ==
  /\ Len(history') >= Len(history)
  /\ \A i \in DOMAIN history :
       /\ history'[i].id = history[i].id
       /\ Payload(history'[i]) = Payload(history[i])
       /\ history'[i].cwd # history[i].cwd =>
            /\ result'.ran = "move"
            /\ IsLive(history[i])
  /\ Len(history') > Len(history) => result'.ran = "copy"
  /\ \A k \in (Len(history) + 1)..Len(history') :
       /\ \A i \in 1..Len(history') : i # k => history'[i].id # history'[k].id
       /\ \E j \in DOMAIN history :
            /\ IsLive(history[j])
            /\ Payload(history'[k]) = Payload(history[j])
  /\ (result'.ran = "count" /\ result.ran = "none" /\ ~result'.threw) =>
       result'.ret = CountEntries(LiveRows(history), normalizePath(Arg(argv, 1), env),
                                  RecursiveFlag(argv))
  /\ (result'.ran = "list" /\ result.ran = "none") =>
       \A k \in DOMAIN result'.listed : IsLive(result'.listed[k])

\* C6: through any sequence of operations no record is deleted; of an
\* existing record only cwd changes, and only by move; soft-deleted records
\* are never counted, listed, changed or copied; the only new records are
\* those copy inserts, each with an id no other record has and every other
\* field but cwd as in a non-deleted record it was copied from.
C6_OnlyMoveAndCopyWrite == [][C6_Step]_vars

\* with a soft-deleted row in the store, a move has changed a copy's cwd
C6_Witness ==
  /\ DidRun("move")
  /\ Len(history) > Len(StoreDeleted)
  /\ \E i \in DOMAIN history : ~IsLive(history[i])
  /\ history[Len(history)] # prev[Len(history)]

\* C7: an insert that fails does not end a non-dry-run copy: the entries
\* after it are still inserted, those before it stay, and the count returned
\* is the number inserted, the matching entries less the failed ones.
C7_CopySurvivesFailedInserts ==
  DidRun("copy") =>
    /\ PrevRowsKept
    /\ result.ret = CountEntries(prev, LastFrom, LastOptions.recursive) - Len(result.failed)
    /\ result.ret = Len(AddedRows)
    /\ result.ret = Len(CopiedEntries)
    /\ \A k \in DOMAIN AddedRows :
         /\ Payload(AddedRows[k]) = Payload(CopiedEntries[k])
         /\ AddedRows[k].cwd = CopiedCwd(CopiedEntries[k], LastFrom, LastTo, LastOptions.recursive)

\* the first insert of a copy of two entries failed and the second was made
C7_Witness ==
  /\ DidRun("copy")
  /\ pc = "exited"
  /\ CountEntries(prev, LastFrom, LastOptions.recursive) = 2
  /\ result.failed = <<SelectEntries(prev, LastFrom, LastOptions.recursive)[1].id>>
  /\ result.ret = 1
  /\ Len(history) = Len(prev) + 1

\* C8: an invocation that opened the store has closed it when the process
\* exits, on every exit path.
C8_AsStated == (pc = "exited" /\ result.opened) => result.closed

\* the arguments that are neither flags nor the value of --db
Positionals(args) ==
  { i \in 1..Len(args) :
      /\ ~StartsWith(args[i], <<"-">>)
      /\ ~(i > 1 /\ args[i - 1] = FLAG_DB) }

\* a move or copy that names fewer than two directories after the command
LacksFromOrTo(args) ==
  /\ Arg(args, 0) \in {CMD_MOVE, CMD_COPY}
  /\ Cardinality(Positionals(args)) < 3

\* C9: the tool exits 0 on success or help and 1 on a usage error, an unknown
\* command, a missing store file or a runtime exception; every move or copy
\* without both a <from> and a <to> directory exits 1 and changes nothing;
\* and a missing store file is found before any operation runs.
C9_AsStated ==
  pc = "exited" =>
    /\ result.exit = (IF WantsHelp(argv) \/ (result.ran # "none" /\ ~result.threw) THEN 0 ELSE 1)
    /\ (~WantsHelp(argv) /\ LacksFromOrTo(argv)) => (result.exit = 1 /\ history = prev)
    /\ ~result.opened => (result.ran = "none" /\ history = prev)

\* some directory on the README's path is named node_modules
UnderDependencyDirectory(file) ==
  \E k \in DOMAIN SplitPath(file.path) : SplitPath(file.path)[k] = NODE_MODULES

\* the READMEs the claim has scan return an entry for
Indexable(file) ==
  /\ file.readable
  /\ ~UnderDependencyDirectory(file)
  /\ HasNameAndPurpose(file)

\* C10: scan returns exactly one entry for each README.md that is readable,
\* has no node_modules segment on its path and has both a name and a purpose,
\* and none for any other; each entry's link is "./" + its README's directory.
C10_AsStated ==
  scanPc = "returned" =>
    /\ \A file \in tree :
         Cardinality({k \in DOMAIN scannedTools : scannedTools[k].path = file.path})
           = IF Indexable(file) THEN 1 ELSE 0
    /\ \A k \in DOMAIN scannedTools :
         scannedTools[k].link = <<".", SLASH>> \o Dirname(scannedTools[k].path)

\* the lines of a text: what stands between its line breaks
RECURSIVE SplitLines(_)
SplitLines(text) ==
  IF \A i \in 1..Len(text) : text[i] # "\n" THEN <<text>>
  ELSE LET k == CHOOSE i \in 1..Len(text) : text[i] = "\n" /\ \A j \in 1..(i - 1) : text[j] # "\n"
       IN  <<SubSeq(text, 1, k - 1)>> \o SplitLines(Slice(text, k))

IsTableLine(line) == line # <<>>

\* the rows of the table in a text: its lines after the line of dashes
TableRows(text) ==
  LET lines == SplitLines(text)
      dashes == CHOOSE i \in 1..Len(lines) : StartsWith(lines[i], <<"|", "-">>)
  IN  SelectSeq(SubSeq(lines, dashes + 1, Len(lines)), IsTableLine)

\* the script has emitted its index
IndexEmitted == scanPc \in {"emitted", "done"}

\* the files that hold a tools table
IndexFiles == {f \in written : StartsWith(f.content, <<"\n", "#", " ", "T", "o", "o", "l", "s">>)}

\* the text that was emitted, as the destination holds it
EmittedText ==
  IF outputFile # <<>>
    THEN (CHOOSE f \in written : f.path = outputFile).content
    ELSE SubSeq(stdout[1], 1, Len(stdout[1]) - 1)

\* the READMEs of the tree the scan has returned an entry for
ScannedFiles ==
  {file \in tree : ~SkippedAsDependency(file) /\ file.readable /\ HasNameAndPurpose(file)}

\* the row is the table row of the file's tool: "| [name](link) | ..."
RowLists(row, file) ==
  StartsWith(row, <<"|", " ", "[">> \o file.name \o <<"]", "(", ".", SLASH>>
                    \o Dirname(file.path) \o <<")", " ", "|", " ">>)

\* a <= b in the order of the dictionary, the case of letters ignored
RECURSIVE IgnoringCaseLeq(_, _)
IgnoringCaseLeq(a, b) ==
  IF a = <<>> THEN TRUE
  ELSE IF b = <<>> THEN FALSE
  ELSE IF Fold(Head(a)) = Fold(Head(b)) THEN IgnoringCaseLeq(Tail(a), Tail(b))
  ELSE \E i, j \in 1..Len(LowerCase) :
         LowerCase[i] = Fold(Head(a)) /\ LowerCase[j] = Fold(Head(b)) /\ i < j

\* every scanned tool is listed by exactly one row
IndexListsEveryToolOnce ==
  IndexEmitted =>
    \A file \in ScannedFiles :
      Cardinality({k \in DOMAIN TableRows(EmittedText) :
                     RowLists(TableRows(EmittedText)[k], file)}) = 1

\* the table has one row per tool, and no other row
IndexHasOneRowPerTool ==
  IndexEmitted =>
    /\ Len(TableRows(EmittedText)) = Cardinality(ScannedFiles)
    /\ \A k \in DOMAIN TableRows(EmittedText) :
         \E file \in ScannedFiles : RowLists(TableRows(EmittedText)[k], file)

\* the tools of any two adjacent rows are in order of name, ignoring case
IndexRowsInOrder ==
  IndexEmitted =>
    \A k \in DOMAIN TableRows(EmittedText) : \A file, next \in ScannedFiles :
      ( /\ k < Len(TableRows(EmittedText))
        /\ RowLists(TableRows(EmittedText)[k], file)
        /\ RowLists(TableRows(EmittedText)[k + 1], next) )
      => IgnoringCaseLeq(file.name, next.name)

\* nothing is sorted or emitted while files are still to be scanned
IndexCollectedFirst ==
  /\ scanPc \in {"sorted", "emitted", "done"} => pending = {}
  /\ (stdout # <<>> \/ written # {}) => IndexEmitted

\* the text is in the destination file, or else on standard output, not both
IndexGoesToOneDestination ==
  IndexEmitted =>
    IF outputFile # <<>>
      THEN stdout = <<>> /\ IndexFiles = {f \in written : f.path = outputFile}
                         /\ Cardinality(IndexFiles) = 1
      ELSE Len(stdout) = 1 /\ IndexFiles = {}

\* C11: the rendered index lists every scanned tool exactly once, as one
\* table row per tool, the names of adjacent rows in order when compared
\* ignoring case; all entries are collected before anything is sorted or
\* emitted; and the text goes to the destination file if one is given and
\* otherwise to standard output, never to both.
C11_AsStated ==
  /\ IndexListsEveryToolOnce
  /\ IndexHasOneRowPerTool
  /\ IndexRowsInOrder
  /\ IndexCollectedFirst
  /\ IndexGoesToOneDestination

====
